---- MODULE Spec2Model ----
(***************************************************************************)
(* Panel corners: the debounce helper, the two-tier theme/settings lookups, *)
(* the PanelCorners controller and the PanelCorner element of               *)
(* src/src/utils.js, as a state machine of the handlers the GLib main loop  *)
(* runs to completion one at a time.                                        *)
(*                                                                          *)
(* Representation.  A JS string whose characters matter (a colour string,  *)
(* the panel's style pseudo-class) is a sequence of one-character strings.  *)
(* A style property name is the sequence <<"-", name>>, so that             *)
(* prop.slice(1) is a real operation.  A double (opacity) is an integer     *)
(* number of hundredths.  A value that may be null is NULL or Some(v).      *)
(***************************************************************************)
EXTENDS Integers, Sequences, FiniteSets, TLC

\* a nullable JS value: null, or a value v
NULL == <<>>

Some(v) == <<v>>

Val(o) == o[1]

\* ------------------------------------------------------------------ bounds
MaxUpdates == 2        \* update() calls in one behaviour
MaxChanges == 2        \* changes made by the user and the shell (settings
                       \* writes, panel resizes, pseudo-class changes) in
                       \* one behaviour
MaxCalls == 2          \* lookups applied in one behaviour of SpecLookup
MaxBurst == 3          \* calls of a debounced function in one burst

\* ----------------------------------------------------------------- strings
\* String.prototype.includes: needle occurs as a contiguous run of hay
includes(hay, needle) ==
    \E i \in 1..(Len(hay) - Len(needle) + 1) :
        SubSeq(hay, i, i + Len(needle) - 1) = needle

\* String.prototype.slice(n) with n >= 0: drops the first n elements
slice(s, n) == SubSeq(s, n + 1, Len(s))

OVERVIEW == <<"o", "v", "e", "r", "v", "i", "e", "w">>

\* sequencing of statements: x is evaluated once and F applied to its value
Then(x, F(_)) == CHOOSE y \in {F(v) : v \in {x}} : TRUE

\* JS truthiness of a nullable string: null and '' are falsy
Truthy(o) == o # NULL /\ Val(o) # <<>>

\* ------------------------------------------------------------ colour parse
HexDigits == <<"0", "1", "2", "3", "4", "5", "6", "7", "8", "9",
               "a", "b", "c", "d", "e", "f">>

IsHex(ch) == \E i \in 1..16 : HexDigits[i] = ch

HexVal(ch) == (CHOOSE i \in 1..16 : HexDigits[i] = ch) - 1

\* Clutter.color_from_string / Cogl.color_from_string on the '#' notations:
\* #rgb, #rgba, #rrggbb and #rrggbbaa; the result is [ok, color]
color_from_string(str) ==
    LET n == Len(str)
        d(i) == HexVal(str[i])
        bad == <<FALSE, NULL>>
    IN  IF n = 0 \/ str[1] # "#" THEN bad
        ELSE IF \E i \in 2..n : ~IsHex(str[i]) THEN bad
        ELSE IF n = 9 THEN
            <<TRUE, [red |-> 16 * d(2) + d(3), green |-> 16 * d(4) + d(5),
                     blue |-> 16 * d(6) + d(7), alpha |-> 16 * d(8) + d(9)]>>
        ELSE IF n = 7 THEN
            <<TRUE, [red |-> 16 * d(2) + d(3), green |-> 16 * d(4) + d(5),
                     blue |-> 16 * d(6) + d(7), alpha |-> 255]>>
        ELSE IF n = 5 THEN
            <<TRUE, [red |-> 17 * d(2), green |-> 17 * d(3),
                     blue |-> 17 * d(4), alpha |-> 17 * d(5)]>>
        ELSE IF n = 4 THEN
            <<TRUE, [red |-> 17 * d(2), green |-> 17 * d(3),
                     blue |-> 17 * d(4), alpha |-> 255]>>
        ELSE bad

\* the literal '#000000ff' of lookup_for_color
BLACK_STR == <<"#", "0", "0", "0", "0", "0", "0", "f", "f">>

OpaqueBlack == [red |-> 0, green |-> 0, blue |-> 0, alpha |-> 255]

\* ---------------------------------------------------- settings and theme
\* style properties, as passed to the lookups by the PanelCorner getters
PROP_RADIUS == <<"-", "panel-corner-radius">>
PROP_BORDER_WIDTH == <<"-", "panel-corner-border-width">>
PROP_BACKGROUND_COLOR == <<"-", "panel-corner-background-color">>
PROP_OPACITY == <<"-", "panel-corner-opacity">>

Props == {PROP_RADIUS, PROP_BORDER_WIDTH, PROP_BACKGROUND_COLOR, PROP_OPACITY}

KEY_FORCE == "force-extension-values"
KEY_DEBUG == "debug"

\* settings.keys: every key the controller subscribes to
Keys == {"panel-corner-radius", "panel-corner-border-width",
         "panel-corner-background-color", "panel-corner-opacity",
         KEY_FORCE, KEY_DEBUG}

RED_STR == <<"#", "f", "0", "0">>
BAD_STR == <<"r", "e", "d", "?">>

\* the values each key takes in the stores the lookups are applied to
KeyValues(key) ==
    CASE key = "panel-corner-radius" -> {10, 12}
      [] key = "panel-corner-border-width" -> {0, 2}
      [] key = "panel-corner-background-color" -> {RED_STR, BAD_STR, BLACK_STR}
      [] key = "panel-corner-opacity" -> {50, 100}
      [] key = KEY_FORCE -> BOOLEAN
      [] key = KEY_DEBUG -> {FALSE}

Store(radius, border_width, color, opacity, force) ==
    [k \in Keys |->
        CASE k = "panel-corner-radius" -> radius
          [] k = "panel-corner-border-width" -> border_width
          [] k = "panel-corner-background-color" -> color
          [] k = "panel-corner-opacity" -> opacity
          [] k = KEY_FORCE -> force
          [] k = KEY_DEBUG -> FALSE]

SettingsStores ==
    {Store(r, b, c, o, f) :
        r \in KeyValues("panel-corner-radius"),
        b \in KeyValues("panel-corner-border-width"),
        c \in KeyValues("panel-corner-background-color"),
        o \in KeyValues("panel-corner-opacity"),
        f \in KeyValues(KEY_FORCE)}

\* settings.get_property(name).get(), name a sliced property name
get_property(settings, name) == settings[name[1]]

FORCE_EXTENSION_VALUES(settings) == settings[KEY_FORCE]

\* a theme: what the theme defines for each property, NULL when it
\* defines nothing
NoTheme == [p \in Props |-> NULL]

FullTheme ==
    [p \in Props |->
        CASE p = PROP_RADIUS -> Some(7)
          [] p = PROP_BORDER_WIDTH -> Some(1)
          [] p = PROP_OPACITY -> Some(80)
          [] p = PROP_BACKGROUND_COLOR ->
                Some([red |-> 0, green |-> 0, blue |-> 255, alpha |-> 255])]

RadiusTheme == [p \in Props |-> IF p = PROP_RADIUS THEN Some(7) ELSE NULL]

Themes == {NoTheme, FullTheme, RadiusTheme}

\* node.lookup_length / lookup_double / lookup_color (prop, false) on a theme
\* node Some(theme): [found, value]
node_lookup(node, prop) ==
    IF Val(node)[prop] = NULL THEN <<FALSE, NULL>>
    ELSE <<TRUE, Val(Val(node)[prop])>>

\* lookup[0] of a JS array that may be empty: undefined is falsy
Found(lookup) == Len(lookup) >= 1 /\ lookup[1]

ScaleFactors == {1, 2}

\* ------------------------------------------------------------- lookups
lookup_for_length(node, prop, settings, scale_factor) ==
    LET use_extension_values == node # NULL /\ FORCE_EXTENSION_VALUES(settings)
        lookup == IF use_extension_values THEN node_lookup(node, prop) ELSE <<>>
    IN  IF use_extension_values \/ ~Found(lookup)
        THEN get_property(settings, slice(prop, 1)) * scale_factor
        ELSE lookup[2]

lookup_for_double(node, prop, settings) ==
    LET use_extension_values == node # NULL /\ FORCE_EXTENSION_VALUES(settings)
        lookup == IF use_extension_values THEN node_lookup(node, prop) ELSE <<>>
    IN  IF use_extension_values \/ ~Found(lookup)
        THEN get_property(settings, slice(prop, 1))
        ELSE lookup[2]

\* lookup_for_color with the default string replaced by one that does not
\* parse (a mistyped literal)
lookup_for_color_BadDefault(node, prop, settings) ==
    LET use_extension_values == node # NULL /\ FORCE_EXTENSION_VALUES(settings)
        lookup == IF use_extension_values THEN node_lookup(node, prop) ELSE <<>>
        key == slice(prop, 1)[1]
        color_parsed == color_from_string(get_property(settings, slice(prop, 1)))
    IN  IF use_extension_values \/ ~Found(lookup)
        THEN IF color_parsed[1]
             THEN [value |-> color_parsed[2], settings |-> settings, set |-> <<>>]
             ELSE [value |-> OpaqueBlack,
                   settings |-> [settings EXCEPT ![key] = BAD_STR],
                   set |-> <<key>>]
        ELSE [value |-> lookup[2], settings |-> settings, set |-> <<>>]

\* the result is the colour returned, the settings store after the call and
\* the keys it wrote with .set(), in order
lookup_for_color(node, prop, settings) ==
    LET use_extension_values == node # NULL /\ FORCE_EXTENSION_VALUES(settings)
        lookup == IF use_extension_values THEN node_lookup(node, prop) ELSE <<>>
        key == slice(prop, 1)[1]
        color_parsed == color_from_string(get_property(settings, slice(prop, 1)))
    IN  IF use_extension_values \/ ~Found(lookup)
        THEN IF color_parsed[1]
             THEN [value |-> color_parsed[2], settings |-> settings, set |-> <<>>]
             ELSE [value |-> color_from_string(BLACK_STR)[2],
                   settings |-> [settings EXCEPT ![key] = BLACK_STR],
                   set |-> <<key>>]
        ELSE [value |-> lookup[2], settings |-> settings, set |-> <<>>]

\* ------------------------------------------------------ PanelCorner element
Sides == {"LEFT", "RIGHT"}

Fields == {"radius", "borderWidth", "backgroundColor", "opacity"}

\* a PanelCorner right after its field initialisers ran.  width and height
\* are the fixed size given by set_size(), what get_preferred_width and
\* get_preferred_height answer; a drawing area with no size set prefers 0.
\* lookups counts, per field, the underlying lookups since the last
\* invalidateCache(), returned collects the values its getter returned
\* since then, and staleReads the fields whose getter since then answered
\* from the cache a value the lookup would no longer give.  atDestroy is
\* what destroy() found when it ran: a timeout pending for the corner, a
\* settings subscription left, a panel listener of the corner left, the
\* corner still a child of the panel.  contexts counts the drawing contexts
\* taken with get_context() and not yet released with $dispose().
NewCorner(side) ==
    [side |-> side,
     destroyed |-> FALSE,
     atDestroy |-> NULL,
     contexts |-> 0,
     position_changed_id |-> NULL,
     size_changed_id |-> NULL,
     cachedRadius |-> NULL,
     cachedBorderWidth |-> NULL,
     cachedBackgroundColor |-> NULL,
     cachedOpacity |-> NULL,
     width |-> 0,
     height |-> 0,
     translation_y |-> 0,
     allocation |-> NULL,
     opacity_target |-> NULL,
     lookups |-> [f \in Fields |-> 0],
     returned |-> [radius |-> {}, borderWidth |-> {},
                   backgroundColor |-> {}, opacity |-> {}],
     staleReads |-> {}]

\* invalidateCache() that forgets the background colour
invalidateCache_KeepsColor(self) ==
    [self EXCEPT !.cachedRadius = NULL,
                 !.cachedBorderWidth = NULL,
                 !.cachedOpacity = NULL,
                 !.lookups = [f \in Fields |->
                                IF f = "backgroundColor" THEN @[f] ELSE 0],
                 !.returned = [@ EXCEPT !.radius = {}, !.borderWidth = {},
                                        !.opacity = {}],
                 !.staleReads = @ \ {"radius", "borderWidth", "opacity"}]

invalidateCache(self) ==
    [self EXCEPT !.cachedRadius = NULL,
                 !.cachedBorderWidth = NULL,
                 !.cachedBackgroundColor = NULL,
                 !.cachedOpacity = NULL,
                 !.lookups = [f \in Fields |-> 0],
                 !.returned = [radius |-> {}, borderWidth |-> {},
                               backgroundColor |-> {}, opacity |-> {}],
                 !.staleReads = {}]

\* #getRadius that looks the value up on every read
getRadius_NoCache(self, node, settings, scale_factor) ==
    LET v == lookup_for_length(node, PROP_RADIUS, settings, scale_factor)
    IN  [self |-> [self EXCEPT !.cachedRadius = Some(v),
                               !.lookups["radius"] = @ + 1,
                               !.returned.radius = @ \cup {v}],
         value |-> v]

\* each getter answers [self |-> the element after the call, value |-> the
\* value returned]
getRadius(self, node, settings, scale_factor) ==
    IF self.cachedRadius = NULL
    THEN LET v == lookup_for_length(node, PROP_RADIUS, settings, scale_factor)
         IN  [self |-> [self EXCEPT !.cachedRadius = Some(v),
                                    !.lookups["radius"] = @ + 1,
                                    !.returned.radius = @ \cup {v}],
              value |-> v]
    ELSE [self |-> [self EXCEPT
                      !.returned.radius = @ \cup {Val(self.cachedRadius)},
                      !.staleReads =
                          IF Val(self.cachedRadius) # lookup_for_length(node, PROP_RADIUS, settings, scale_factor)
                          THEN @ \cup {"radius"}
                          ELSE @],
          value |-> Val(self.cachedRadius)]

getBorderWidth(self, node, settings, scale_factor) ==
    IF self.cachedBorderWidth = NULL
    THEN LET v == lookup_for_length(node, PROP_BORDER_WIDTH, settings,
                                    scale_factor)
         IN  [self |-> [self EXCEPT !.cachedBorderWidth = Some(v),
                                    !.lookups["borderWidth"] = @ + 1,
                                    !.returned.borderWidth = @ \cup {v}],
              value |-> v]
    ELSE [self |-> [self EXCEPT
                      !.returned.borderWidth = @ \cup {Val(self.cachedBorderWidth)},
                      !.staleReads =
                          IF Val(self.cachedBorderWidth) # lookup_for_length(node, PROP_BORDER_WIDTH, settings, scale_factor)
                          THEN @ \cup {"borderWidth"}
                          ELSE @],
          value |-> Val(self.cachedBorderWidth)]

\* also answers the settings store after the call and the keys written
getBackgroundColor(self, node, settings) ==
    IF self.cachedBackgroundColor = NULL
    THEN LET r == lookup_for_color(node, PROP_BACKGROUND_COLOR, settings)
         IN  [self |-> [self EXCEPT !.cachedBackgroundColor = Some(r.value),
                                    !.lookups["backgroundColor"] = @ + 1,
                                    !.returned.backgroundColor =
                                        @ \cup {r.value}],
              value |-> r.value, settings |-> r.settings, set |-> r.set]
    ELSE [self |-> [self EXCEPT
                      !.returned.backgroundColor = @ \cup {Val(self.cachedBackgroundColor)},
                      !.staleReads =
                          IF Val(self.cachedBackgroundColor) # lookup_for_color(node, PROP_BACKGROUND_COLOR, settings).value
                          THEN @ \cup {"backgroundColor"}
                          ELSE @],
          value |-> Val(self.cachedBackgroundColor),
          settings |-> settings, set |-> <<>>]

getOpacity(self, node, settings) ==
    IF self.cachedOpacity = NULL
    THEN LET v == lookup_for_double(node, PROP_OPACITY, settings)
         IN  [self |-> [self EXCEPT !.cachedOpacity = Some(v),
                                    !.lookups["opacity"] = @ + 1,
                                    !.returned.opacity = @ \cup {v}],
              value |-> v]
    ELSE [self |-> [self EXCEPT
                      !.returned.opacity = @ \cup {Val(self.cachedOpacity)},
                      !.staleReads =
                          IF Val(self.cachedOpacity) # lookup_for_double(node, PROP_OPACITY, settings)
                          THEN @ \cup {"opacity"}
                          ELSE @],
          value |-> Val(self.cachedOpacity)]

\* [minimum, natural] size of the element: its fixed size
get_preferred_width(self) == <<self.width, self.width>>

get_preferred_height(self) == <<self.height, self.height>>

\* #update_allocation(): the box handed to allocate()
update_allocation(self, panel) ==
    LET cornerWidth == get_preferred_width(self)[2]
        cornerHeight == get_preferred_height(self)[2]
        allocWidth == panel.width
        allocHeight == panel.height
        childBox ==
            CASE self.side = "LEFT" ->
                    [x1 |-> 0, x2 |-> cornerWidth,
                     y1 |-> allocHeight, y2 |-> allocHeight + cornerHeight]
              [] self.side = "RIGHT" ->
                    [x1 |-> allocWidth - cornerWidth, x2 |-> allocWidth,
                     y1 |-> allocHeight, y2 |-> allocHeight + cornerHeight]
    IN  [self EXCEPT !.allocation = Some(childBox)]

\* this.get_theme_node(): the node of the active theme
get_theme_node(theme) == Some(theme)

\* the overview override applied whenever the panel has a pseudo-class
overview_opacity_NoForce(settings, panel, opacity) ==
    IF Truthy(panel.style_pseudo_class)
       /\ includes(Val(panel.style_pseudo_class), OVERVIEW)
    THEN 0
    ELSE opacity

\* if using extension values and in overview, set transparent
overview_opacity(settings, panel, opacity) ==
    IF FORCE_EXTENSION_VALUES(settings)
       /\ Truthy(panel.style_pseudo_class)
       /\ includes(Val(panel.style_pseudo_class), OVERVIEW)
    THEN 0
    ELSE opacity

\* set_size(width, height) with the two arguments swapped
set_size_Swapped(self, width, height) ==
    [self EXCEPT !.width = height, !.height = width]

set_size(self, width, height) ==
    [self EXCEPT !.width = width, !.height = height]

\* vfunc_style_changed() that skips invalidateCache()
vfunc_style_changed_NoInvalidate(self, settings, scale_factor, theme, panel) ==
    LET node == get_theme_node(theme) IN
    Then(getRadius(self, node, settings, scale_factor), LAMBDA r :
    Then(getBorderWidth(r.self, node, settings, scale_factor), LAMBDA b :
    Then(getOpacity(b.self, node, settings), LAMBDA o :
    Then(overview_opacity(settings, panel, o.value), LAMBDA opacity :
    Then(update_allocation(o.self, panel), LAMBDA allocated :
    Then(set_size(allocated, r.value, b.value + r.value), LAMBDA sized :
    [sized EXCEPT !.translation_y = -b.value,
                  !.opacity_target = Some(opacity * 255)]))))))

vfunc_style_changed(self, settings, scale_factor, theme, panel) ==
    LET node == get_theme_node(theme) IN
    Then(invalidateCache(self), LAMBDA invalidated :
    Then(getRadius(invalidated, node, settings, scale_factor), LAMBDA r :
    Then(getBorderWidth(r.self, node, settings, scale_factor), LAMBDA b :
    Then(getOpacity(b.self, node, settings), LAMBDA o :
    Then(overview_opacity(settings, panel, o.value), LAMBDA opacity :
    Then(update_allocation(o.self, panel), LAMBDA allocated :
    Then(set_size(allocated, r.value, b.value + r.value), LAMBDA sized :
    [sized EXCEPT !.translation_y = -b.value,
                  !.opacity_target = Some(opacity * 255)])))))))

\* what can throw in a repaint: the lookup behind one of the three getters,
\* when the getter has to make it, or a call on the drawing context
Faults == {Some("radius"), Some("borderWidth"), Some("backgroundColor"),
           Some("draw")}

\* vfunc_repaint(): [self, settings after the call, keys written, what was
\* drawn].  The arc is (xc, yc, radius, angle1, angle2), angles in degrees.
\* fault is NULL, or what throws in this call: the exception leaves the
\* handler at that point, with nothing drawn.
vfunc_repaint(self, settings, scale_factor, theme, fault) ==
    LET node == get_theme_node(theme)
        thrown(at, store, set) ==
            [self |-> at, settings |-> store, set |-> set, drawn |-> NULL]
    IN
    IF fault = Some("radius") /\ self.cachedRadius = NULL
    THEN thrown(self, settings, <<>>)
    ELSE
    Then(getRadius(self, node, settings, scale_factor), LAMBDA r :
    IF fault = Some("borderWidth") /\ r.self.cachedBorderWidth = NULL
    THEN thrown(r.self, settings, <<>>)
    ELSE
    Then(getBorderWidth(r.self, node, settings, scale_factor), LAMBDA b :
    IF fault = Some("backgroundColor") /\ b.self.cachedBackgroundColor = NULL
    THEN thrown(b.self, settings, <<>>)
    ELSE
    Then(getBackgroundColor(b.self, node, settings), LAMBDA c :
    LET cornerRadius == r.value
        borderWidth == b.value
        cr == [c.self EXCEPT !.contexts = @ + 1]
        arc == IF self.side = "LEFT"
               THEN <<cornerRadius, borderWidth + cornerRadius,
                      cornerRadius, 180, 270>>
               ELSE <<0, borderWidth + cornerRadius, cornerRadius, 270, 360>>
    IN  IF fault = Some("draw")
        THEN thrown(cr, c.settings, c.set)
        ELSE [self |-> [cr EXCEPT !.contexts = @ - 1],
              settings |-> c.settings, set |-> c.set,
              drawn |-> [arc |-> arc, lineTo |-> <<cornerRadius, 0>>,
                         color |-> c.value]])))

\* ------------------------------------------------------------------ state
VARIABLES
    corners,               \* every PanelCorner constructed so far, by identity
    debounces,             \* every debounced function created so far
    debouncedStyleUpdate,  \* PanelCorners.#debouncedStyleUpdate
    connections,           \* the connection registry: [signal, handler]
    sources,               \* GLib timeout sources not yet dispatched
    panel,                 \* Main.panel
    settings,              \* the settings store
    theme,                 \* the active theme
    scale_factor,          \* St.ThemeContext scale_factor
    nChanges,              \* changes made by the user and the shell so far
    call                   \* SpecLookup: the lookups applied so far

vars == <<corners, debounces, debouncedStyleUpdate, connections, sources,
          panel, settings, theme, scale_factor, nChanges, call>>

\* the mutable part of the state, threaded through the calls of a handler
World ==
    [corners |-> corners, debounces |-> debounces,
     debouncedStyleUpdate |-> debouncedStyleUpdate,
     connections |-> connections, sources |-> sources, panel |-> panel,
     settings |-> settings]

Commit(w) ==
    /\ corners' = w.corners
    /\ debounces' = w.debounces
    /\ debouncedStyleUpdate' = w.debouncedStyleUpdate
    /\ connections' = w.connections
    /\ sources' = w.sources
    /\ panel' = w.panel
    /\ settings' = w.settings

\* ---------------------------------------------------------------- debounce
\* GLib.source_remove(id)
source_remove(srcs, id) == {s \in srcs : s.id # id}

\* the id GLib gives a new source: one no pending source has
new_source_id(srcs) ==
    CHOOSE i \in 1..(Cardinality(srcs) + 1) :
        /\ \A s \in srcs : s.id # i
        /\ \A j \in 1..(i - 1) : \E s \in srcs : s.id = j

\* debounce(callback, wait): a new debounced function for the callback on
\* corner c.  calls and runs count the calls and the callback runs of the
\* current burst, which starts with a call that finds no timer pending.
debounce(c) == [corner |-> c, timeoutId |-> NULL, calls |-> 0, runs |-> 0]

\* the debounced function that leaves the pending source in place
debounced_NoRemove(w, d, args) ==
    LET id == new_source_id(w.sources)
    IN  [w EXCEPT !.sources = @ \cup {[id |-> id, debounce |-> d,
                                       args |-> args]},
                  !.debounces[d].timeoutId = Some(id),
                  !.debounces[d].calls =
                      IF w.debounces[d].timeoutId = NULL THEN 1 ELSE @ + 1,
                  !.debounces[d].runs =
                      IF w.debounces[d].timeoutId = NULL THEN 0 ELSE @]

\* debounced(...args) of debounced function d
debounced(w, d, args) ==
    LET timeoutId == w.debounces[d].timeoutId
        srcs == IF timeoutId # NULL
                THEN source_remove(w.sources, Val(timeoutId))
                ELSE w.sources
        id == new_source_id(srcs)
    IN  [w EXCEPT !.sources = srcs \cup {[id |-> id, debounce |-> d,
                                          args |-> args]},
                  !.debounces[d].timeoutId = Some(id),
                  !.debounces[d].calls = IF timeoutId = NULL THEN 1 ELSE @ + 1,
                  !.debounces[d].runs = IF timeoutId = NULL THEN 0 ELSE @]

\* debounced.cancel()
cancel(w, d) ==
    LET timeoutId == w.debounces[d].timeoutId
    IN  IF timeoutId # NULL
        THEN [w EXCEPT !.sources = source_remove(@, Val(timeoutId)),
                       !.debounces[d].timeoutId = NULL]
        ELSE w

\* the callback of update_corner() without its invalidateCache() calls
style_update_callback_NoInvalidate(w, c) ==
    [w EXCEPT !.corners[c] =
        vfunc_style_changed_NoInvalidate(w.corners[c], w.settings,
                                         scale_factor, theme, w.panel)]

\* the callback of update_corner(): () => { corner.invalidateCache();
\* corner.vfunc_style_changed(); }
style_update_callback(w, c) ==
    [w EXCEPT !.corners[c] =
        vfunc_style_changed(invalidateCache(w.corners[c]), w.settings,
                            scale_factor, theme, w.panel)]

\* the timeout callback of source s
timeout_callback(w, s) ==
    Then([w EXCEPT !.sources = @ \ {s},
                   !.debounces[s.debounce].timeoutId = NULL,
                   !.debounces[s.debounce].runs = @ + 1], LAMBDA cleared :
    style_update_callback(cleared, cleared.debounces[s.debounce].corner))

\* ------------------------------------------------------ settings signals
\* the order of settings.keys
KeyOrder == <<"panel-corner-radius", "panel-corner-border-width",
              "panel-corner-background-color", "panel-corner-opacity",
              KEY_FORCE, KEY_DEBUG>>

RECURSIVE emit_changed_Direct(_, _, _)
\* 'changed::key' with the callback connected directly, without debounce
emit_changed_Direct(w, key, i) ==
    IF i > Len(w.connections) THEN w
    ELSE LET cn == w.connections[i]
         IN  emit_changed_Direct(
                 IF cn.signal = key
                 THEN style_update_callback(w, w.debounces[cn.handler].corner)
                 ELSE w,
                 key, i + 1)

RECURSIVE emit_changed(_, _, _)
\* 'changed::key' of the settings: every handler connected to it, from the
\* i-th connection on, is called with the key
emit_changed(w, key, i) ==
    IF i > Len(w.connections) THEN w
    ELSE LET cn == w.connections[i]
         IN  emit_changed(IF cn.signal = key
                          THEN debounced(w, cn.handler, key)
                          ELSE w,
                          key, i + 1)

RECURSIVE emit_all(_, _, _)
\* the 'changed' signals of the keys a handler wrote, in order
emit_all(w, keys, i) ==
    IF i > Len(keys) THEN w
    ELSE emit_all(emit_changed(w, keys[i], 1), keys, i + 1)

\* connections.disconnect_all()
disconnect_all(w) == [w EXCEPT !.connections = <<>>]

\* ------------------------------------------------------------ panel actor
\* the id Main.panel.connect() gives a new handler
new_handler_id(handlers) ==
    CHOOSE i \in 1..(Cardinality(handlers) + 1) :
        /\ \A h \in handlers : h.id # i
        /\ \A j \in 1..(i - 1) : \E h \in handlers : h.id = j

\* Main.panel.connect(signal, this.#update_allocation.bind(corner c))
panel_connect(pnl, signal, c) ==
    [pnl EXCEPT !.handlers =
        @ \cup {[id |-> new_handler_id(pnl.handlers), signal |-> signal,
                 corner |-> c]}]

\* Main.panel.disconnect(id)
panel_disconnect(pnl, id) ==
    [pnl EXCEPT !.handlers = {h \in @ : h.id # id}]

\* a 'notify::...' of the panel: every handler connected to it runs
\* #update_allocation() on its corner
emit_notify(w, signal) ==
    [w EXCEPT !.corners =
        [c \in DOMAIN w.corners |->
            IF \E h \in w.panel.handlers : h.signal = signal /\ h.corner = c
            THEN update_allocation(w.corners[c], w.panel)
            ELSE w.corners[c]]]

\* ---------------------------------------------------- PanelCorner lifecycle
\* new PanelCorner(side, settings): the element gets the next identity
constructor(w, side) ==
    LET c == Len(w.corners) + 1 IN
    Then(new_handler_id(w.panel.handlers), LAMBDA position_changed_id :
    Then(panel_connect(w.panel, "notify::position", c), LAMBDA p1 :
    Then(new_handler_id(p1.handlers), LAMBDA size_changed_id :
    Then(panel_connect(p1, "notify::size", c), LAMBDA p2 :
    LET self == [NewCorner(side) EXCEPT
                    !.position_changed_id = Some(position_changed_id),
                    !.size_changed_id = Some(size_changed_id)]
    IN  [w EXCEPT !.panel = p2,
                  !.corners = Append(@, update_allocation(self, p2))]))))

\* corner.remove_connections()
remove_connections(w, c) ==
    LET self == w.corners[c] IN
    Then(IF self.position_changed_id # NULL
         THEN [w EXCEPT !.panel =
                            panel_disconnect(@, Val(self.position_changed_id)),
                        !.corners[c].position_changed_id = NULL]
         ELSE w, LAMBDA w1 :
    IF self.size_changed_id # NULL
    THEN [w1 EXCEPT !.panel = panel_disconnect(@, Val(self.size_changed_id)),
                    !.corners[c].size_changed_id = NULL]
    ELSE w1)

\* corner.destroy(): the actor is disposed and leaves the scene; the style
\* binding to it goes with it, and what it showed is gone
destroy(w, c) ==
    [w EXCEPT !.corners[c] =
                 [NewCorner(w.corners[c].side) EXCEPT
                     !.destroyed = TRUE,
                     !.atDestroy =
                         Some([pending |->
                                   \E s \in w.sources :
                                       w.debounces[s.debounce].corner = c,
                               subscribed |-> w.connections # <<>>,
                               listeners |->
                                   \E h \in w.panel.handlers : h.corner = c,
                               child |-> c \in w.panel.children])],
              !.panel.bindings = @ \ {c}]

\* PanelCorners.remove_corner(corner)
remove_corner(w, c) ==
    Then(remove_connections(w, c), LAMBDA w1 :
    Then([w1 EXCEPT !.panel.children = @ \ {c}], LAMBDA w2 :
    destroy(w2, c)))

\* remove() that, when it holds no debounced function, removes every timeout
\* still pending
remove_SweepsIdle(w) ==
    Then(IF w.debouncedStyleUpdate # NULL
         THEN [cancel(w, Val(w.debouncedStyleUpdate))
                   EXCEPT !.debouncedStyleUpdate = NULL]
         ELSE [w EXCEPT !.sources = {},
                        !.debounces = [d \in DOMAIN @ |->
                                          [@[d] EXCEPT !.timeoutId = NULL]]],
         LAMBDA w1 :
    Then(disconnect_all(w1), LAMBDA w2 :
    Then(IF w2.panel._leftCorner # NULL
         THEN [remove_corner(w2, Val(w2.panel._leftCorner))
                   EXCEPT !.panel._leftCorner = NULL]
         ELSE w2, LAMBDA w3 :
    IF w3.panel._rightCorner # NULL
    THEN [remove_corner(w3, Val(w3.panel._rightCorner))
              EXCEPT !.panel._rightCorner = NULL]
    ELSE w3)))

\* remove() that leaves the settings subscriptions in place
remove_KeepsConnections(w) ==
    Then(IF w.debouncedStyleUpdate # NULL
         THEN [cancel(w, Val(w.debouncedStyleUpdate))
                   EXCEPT !.debouncedStyleUpdate = NULL]
         ELSE w, LAMBDA w1 :
    Then(IF w1.panel._leftCorner # NULL
         THEN [remove_corner(w1, Val(w1.panel._leftCorner))
                   EXCEPT !.panel._leftCorner = NULL]
         ELSE w1, LAMBDA w3 :
    IF w3.panel._rightCorner # NULL
    THEN [remove_corner(w3, Val(w3.panel._rightCorner))
              EXCEPT !.panel._rightCorner = NULL]
    ELSE w3))

\* PanelCorners.remove()
remove(w) ==
    Then(IF w.debouncedStyleUpdate # NULL
         THEN [cancel(w, Val(w.debouncedStyleUpdate))
                   EXCEPT !.debouncedStyleUpdate = NULL]
         ELSE w, LAMBDA w1 :
    Then(disconnect_all(w1), LAMBDA w2 :
    Then(IF w2.panel._leftCorner # NULL
         THEN [remove_corner(w2, Val(w2.panel._leftCorner))
                   EXCEPT !.panel._leftCorner = NULL]
         ELSE w2, LAMBDA w3 :
    IF w3.panel._rightCorner # NULL
    THEN [remove_corner(w3, Val(w3.panel._rightCorner))
              EXCEPT !.panel._rightCorner = NULL]
    ELSE w3)))

RECURSIVE connect_keys(_, _, _)
\* this.#settings.keys.forEach(key => this.#connections.connect(actor,
\* 'changed::' + key.name, this.#debouncedStyleUpdate)), from the i-th key
connect_keys(w, handler, i) ==
    IF i > Len(KeyOrder) THEN w
    ELSE connect_keys([w EXCEPT !.connections =
                          Append(@, [signal |-> KeyOrder[i],
                                     handler |-> handler])],
                      handler, i + 1)

\* PanelCorners.update_corner(corner)
update_corner(w, c) ==
    Then([w EXCEPT !.panel.bindings = @ \cup {c}], LAMBDA w1 :
    Then([w1 EXCEPT !.panel.children = @ \cup {c}], LAMBDA w2 :
    Then([w2 EXCEPT !.corners[c] =
             vfunc_style_changed(w2.corners[c], w2.settings, scale_factor,
                                 theme, w2.panel)], LAMBDA w3 :
    Then([w3 EXCEPT !.debounces = Append(@, debounce(c)),
                    !.debouncedStyleUpdate = Some(Len(w3.debounces) + 1)],
         LAMBDA w4 :
    connect_keys(w4, Val(w4.debouncedStyleUpdate), 1)))))

\* PanelCorners.update()
update(w) ==
    Then(remove(w), LAMBDA w1 :
    Then(constructor(w1, "LEFT"), LAMBDA w2 :
    Then([w2 EXCEPT !.panel._leftCorner = Some(Len(w2.corners))], LAMBDA w3 :
    Then(constructor(w3, "RIGHT"), LAMBDA w4 :
    Then([w4 EXCEPT !.panel._rightCorner = Some(Len(w4.corners))], LAMBDA w5 :
    Then(update_corner(w5, Val(w5.panel._leftCorner)), LAMBDA w6 :
    update_corner(w6, Val(w6.panel._rightCorner))))))))

\* ------------------------------------------------------------ environment
SOLID == <<"s", "o", "l", "i", "d">>

\* what Main.panel.get_style_pseudo_class() can answer
PseudoClasses == {NULL, Some(<<>>), Some(SOLID), Some(OVERVIEW),
                  Some(SOLID \o <<" ">> \o OVERVIEW)}

\* the pseudo-classes the shell gives the panel in Spec
ShellPseudoClasses == {NULL, Some(SOLID), Some(SOLID \o <<" ">> \o OVERVIEW)}

\* the values the user writes to each key in Spec
EditValues(key) ==
    CASE key = "panel-corner-radius" -> {10, 12}
      [] key = "panel-corner-border-width" -> {}
      [] key = "panel-corner-background-color" -> {RED_STR, BAD_STR}
      [] key = "panel-corner-opacity" -> {}
      [] key = KEY_FORCE -> BOOLEAN
      [] key = KEY_DEBUG -> {}

\* [width, height] of the panel
PanelSizes == {<<1000, 40>>, <<800, 32>>}

\* the theme, scale factor and store a behaviour of Spec starts from
InitialConfigs ==
    {[theme |-> FullTheme, scale_factor |-> 1,
      settings |-> Store(10, 2, RED_STR, 100, FALSE)]}

\* the corners attached to the panel
Attached == panel.children

\* ------------------------------------------------------------------- Init
Init ==
    /\ corners = <<>>
    /\ debounces = <<>>
    /\ debouncedStyleUpdate = NULL
    /\ connections = <<>>
    /\ sources = {}
    /\ panel = [width |-> 1000, height |-> 40, style_pseudo_class |-> NULL,
                _leftCorner |-> NULL, _rightCorner |-> NULL,
                children |-> {}, handlers |-> {}, bindings |-> {}]
    /\ \E cfg \in InitialConfigs :
          /\ settings = cfg.settings
          /\ theme = cfg.theme
          /\ scale_factor = cfg.scale_factor
    /\ nChanges = 0
    /\ call = <<>>

\* ---------------------------------------------------------------- actions
\* the extension calls PanelCorners.update()
Update ==
    /\ Len(corners) + 2 <= 2 * MaxUpdates
    /\ Commit(update(World))
    /\ UNCHANGED <<theme, scale_factor, nChanges, call>>

\* the extension calls PanelCorners.remove()
Remove ==
    /\ Commit(remove(World))
    /\ UNCHANGED <<theme, scale_factor, nChanges, call>>

\* the user writes value to key: the store changes and 'changed::key' is
\* delivered to every connected handler
SettingsChanged(key, value) ==
    /\ nChanges < MaxChanges
    /\ value # settings[key]
    /\ Commit(emit_changed([World EXCEPT !.settings[key] = value], key, 1))
    /\ nChanges' = nChanges + 1
    /\ UNCHANGED <<theme, scale_factor, call>>

\* the main loop dispatches timeout source s
TimeoutFires(s) ==
    /\ s \in sources
    /\ Commit(timeout_callback(World, s))
    /\ UNCHANGED <<theme, scale_factor, nChanges, call>>

RECURSIVE style_changed_from(_, _)
\* style-changed reaches the attached corners c, c + 1, ... in turn
style_changed_from(w, c) ==
    IF c > Len(w.corners) THEN w
    ELSE style_changed_from(
            IF c \in w.panel.children
            THEN [w EXCEPT !.corners[c] =
                     vfunc_style_changed(w.corners[c], w.settings,
                                         scale_factor, theme, w.panel)]
            ELSE w,
            c + 1)

RECURSIVE repaint_from(_, _, _)
\* the attached corners c, c + 1, ... repaint in turn; a setting written by
\* the colour lookup signals its change to the connected handlers
repaint_from(w, c, fault) ==
    IF c > Len(w.corners) THEN w
    ELSE repaint_from(
            IF c \in w.panel.children
            THEN LET r == vfunc_repaint(w.corners[c], w.settings,
                                        scale_factor, theme, fault)
                 IN  emit_all([w EXCEPT !.corners[c] = r.self,
                                        !.settings = r.settings],
                              r.set, 1)
            ELSE w,
            c + 1, fault)

\* the panel's style changes: the scene delivers style-changed to the
\* attached corners in one emission
StyleChanged ==
    /\ Attached # {}
    /\ Commit(style_changed_from(World, 1))
    /\ UNCHANGED <<theme, scale_factor, nChanges, call>>

\* the stage paints a frame: the attached corners repaint
Repaint ==
    /\ Attached # {}
    /\ Commit(repaint_from(World, 1, NULL))
    /\ UNCHANGED <<theme, scale_factor, nChanges, call>>

\* the stage paints a frame and fault throws in the repaint of each corner
RepaintThrows(fault) ==
    /\ nChanges < MaxChanges
    /\ Attached # {}
    /\ Commit(repaint_from(World, 1, fault))
    /\ nChanges' = nChanges + 1
    /\ UNCHANGED <<theme, scale_factor, call>>

\* a caller invalidates the caches of the attached corners
InvalidateCache ==
    /\ Attached # {}
    /\ Commit([World EXCEPT !.corners =
                  [c \in DOMAIN corners |->
                      IF c \in Attached THEN invalidateCache(corners[c])
                      ELSE corners[c]]])
    /\ UNCHANGED <<theme, scale_factor, nChanges, call>>

\* the panel is resized: 'notify::size'
PanelResized(size) ==
    /\ nChanges < MaxChanges
    /\ size # <<panel.width, panel.height>>
    /\ Commit(emit_notify([World EXCEPT !.panel.width = size[1],
                                        !.panel.height = size[2]],
                          "notify::size"))
    /\ nChanges' = nChanges + 1
    /\ UNCHANGED <<theme, scale_factor, call>>

\* the panel is moved: 'notify::position'
PanelMoved ==
    /\ Commit(emit_notify(World, "notify::position"))
    /\ UNCHANGED <<theme, scale_factor, nChanges, call>>

\* the shell changes the panel's style pseudo-class
PseudoClassChanged(pseudo) ==
    /\ nChanges < MaxChanges
    /\ pseudo # panel.style_pseudo_class
    /\ Commit([World EXCEPT !.panel.style_pseudo_class = pseudo])
    /\ nChanges' = nChanges + 1
    /\ UNCHANGED <<theme, scale_factor, call>>

Next ==
    \/ Update
    \/ Remove
    \/ \E key \in Keys : \E value \in EditValues(key) :
          SettingsChanged(key, value)
    \/ \E s \in sources : TimeoutFires(s)
    \/ StyleChanged
    \/ Repaint
    \/ InvalidateCache
    \/ \E size \in PanelSizes : PanelResized(size)
    \/ PanelMoved
    \/ \E pseudo \in ShellPseudoClasses : PseudoClassChanged(pseudo)

Spec == Init /\ [][Next]_vars

\* ------------------------------------------------- the element on its own
\* the state right after the first update(), in any environment
InitElement ==
    \E st \in SettingsStores, th \in Themes, sf \in ScaleFactors,
       ps \in PseudoClasses, size \in PanelSizes :
        /\ theme = th
        /\ scale_factor = sf
        /\ \E w \in {update(
                     [corners |-> <<>>, debounces |-> <<>>,
                      debouncedStyleUpdate |-> NULL, connections |-> <<>>,
                      sources |-> {},
                      panel |-> [width |-> size[1], height |-> size[2],
                                 style_pseudo_class |-> ps,
                                 _leftCorner |-> NULL, _rightCorner |-> NULL,
                                 children |-> {}, handlers |-> {},
                                 bindings |-> {}],
                      settings |-> st])} :
               /\ corners = w.corners
               /\ debounces = w.debounces
               /\ debouncedStyleUpdate = w.debouncedStyleUpdate
               /\ connections = w.connections
               /\ sources = w.sources
               /\ panel = w.panel
               /\ settings = w.settings
        /\ nChanges = 0
        /\ call = <<>>

NextElement ==
    \/ StyleChanged
    \/ Repaint
    \/ InvalidateCache
    \/ PanelMoved
    \/ \E s \in sources : TimeoutFires(s)

SpecElement == InitElement /\ [][NextElement]_vars

\* ------------------------------------------- the element, repaints failing
NextRepaint ==
    \/ Repaint
    \/ \E fault \in Faults : RepaintThrows(fault)
    \/ StyleChanged
    \/ InvalidateCache

SpecRepaint == InitElement /\ [][NextRepaint]_vars

\* ------------------------------------------- the debounced functions alone
\* the state right after the first update()
InitDebounce ==
    /\ \E cfg \in InitialConfigs :
          /\ theme = cfg.theme
          /\ scale_factor = cfg.scale_factor
          /\ \E w \in {update(
                       [corners |-> <<>>, debounces |-> <<>>,
                        debouncedStyleUpdate |-> NULL, connections |-> <<>>,
                        sources |-> {},
                        panel |-> [width |-> 1000, height |-> 40,
                                   style_pseudo_class |-> NULL,
                                   _leftCorner |-> NULL,
                                   _rightCorner |-> NULL,
                                   children |-> {}, handlers |-> {},
                                   bindings |-> {}],
                        settings |-> cfg.settings])} :
                 /\ corners = w.corners
                 /\ debounces = w.debounces
                 /\ debouncedStyleUpdate = w.debouncedStyleUpdate
                 /\ connections = w.connections
                 /\ sources = w.sources
                 /\ panel = w.panel
                 /\ settings = w.settings
    /\ nChanges = 0
    /\ call = <<>>

\* debounced function d is called with args
DebouncedCall(d, args) ==
    /\ debounces[d].timeoutId # NULL => debounces[d].calls < MaxBurst
    /\ Commit(debounced(World, d, args))
    /\ UNCHANGED <<theme, scale_factor, nChanges, call>>

\* d.cancel() is called
Cancel(d) ==
    /\ Commit(cancel(World, d))
    /\ UNCHANGED <<theme, scale_factor, nChanges, call>>

NextDebounce ==
    \/ \E d \in DOMAIN debounces : \E args \in Keys : DebouncedCall(d, args)
    \/ \E d \in DOMAIN debounces : Cancel(d)
    \/ \E s \in sources : TimeoutFires(s)

SpecDebounce == InitDebounce /\ [][NextDebounce]_vars

\* ------------------------------------------- the controller staying ACTIVE
\* after update(), with no further update() or remove(): the user edits the
\* settings, the shell restyles, resizes and repaints, and the main loop
\* dispatches every timeout that stays pending
InitActive == InitDebounce

NextActive ==
    \/ \E key \in Keys : \E value \in EditValues(key) :
          SettingsChanged(key, value)
    \/ \E s \in sources : TimeoutFires(s)
    \/ StyleChanged
    \/ Repaint
    \/ \E size \in PanelSizes : PanelResized(size)
    \/ PanelMoved
    \/ \E pseudo \in ShellPseudoClasses : PseudoClassChanged(pseudo)

SpecActive ==
    /\ InitActive
    /\ [][NextActive]_vars
    /\ WF_vars(\E s \in sources : TimeoutFires(s))

\* ------------------------------------------------- the lookups on their own
\* the theme node a caller can pass: none, or the node of the active theme
Nodes == {NULL, get_theme_node(theme)}

InitLookup ==
    /\ corners = <<>>
    /\ debounces = <<>>
    /\ debouncedStyleUpdate = NULL
    /\ connections = <<>>
    /\ sources = {}
    /\ panel = [width |-> 1000, height |-> 40, style_pseudo_class |-> NULL,
                _leftCorner |-> NULL, _rightCorner |-> NULL,
                children |-> {}, handlers |-> {}, bindings |-> {}]
    /\ settings \in SettingsStores
    /\ theme \in Themes
    /\ scale_factor \in ScaleFactors
    /\ nChanges = 0
    /\ call = <<>>

\* what a call of a lookup is recorded as: its arguments, its result and
\* the keys it wrote
Call(fn, node, prop, store, value, set) ==
    [fn |-> fn, node |-> node, prop |-> prop, settings |-> store,
     value |-> value, set |-> set]

LookupLength(node, prop) ==
    /\ Len(call) < MaxCalls
    /\ call' = Append(call,
                 Call("lookup_for_length", node, prop, settings,
                      lookup_for_length(node, prop, settings, scale_factor),
                      <<>>))
    /\ UNCHANGED <<corners, debounces, debouncedStyleUpdate, connections,
                   sources, panel, settings, theme, scale_factor, nChanges>>

LookupDouble(node, prop) ==
    /\ Len(call) < MaxCalls
    /\ call' = Append(call,
                 Call("lookup_for_double", node, prop, settings,
                      lookup_for_double(node, prop, settings), <<>>))
    /\ UNCHANGED <<corners, debounces, debouncedStyleUpdate, connections,
                   sources, panel, settings, theme, scale_factor, nChanges>>

LookupColor(node, prop) ==
    /\ Len(call) < MaxCalls
    /\ LET r == lookup_for_color(node, prop, settings)
       IN  /\ call' = Append(call, Call("lookup_for_color", node, prop,
                                        settings, r.value, r.set))
           /\ settings' = r.settings
    /\ UNCHANGED <<corners, debounces, debouncedStyleUpdate, connections,
                   sources, panel, theme, scale_factor, nChanges>>

NextLookup ==
    \/ \E node \in Nodes : \E prop \in {PROP_RADIUS, PROP_BORDER_WIDTH} :
          LookupLength(node, prop)
    \/ \E node \in Nodes : LookupDouble(node, PROP_OPACITY)
    \/ \E node \in Nodes : LookupColor(node, PROP_BACKGROUND_COLOR)

SpecLookup == InitLookup /\ [][NextLookup]_vars

\* ================================================================ claims
\* the controller's two states
ABSENT == panel._leftCorner = NULL /\ panel._rightCorner = NULL

ACTIVE == panel._leftCorner # NULL /\ panel._rightCorner # NULL

\* what each lookup gives in the current state
FreshRadius ==
    lookup_for_length(get_theme_node(theme), PROP_RADIUS, settings,
                      scale_factor)

FreshBorderWidth ==
    lookup_for_length(get_theme_node(theme), PROP_BORDER_WIDTH, settings,
                      scale_factor)

FreshOpacity == lookup_for_double(get_theme_node(theme), PROP_OPACITY, settings)

FreshBackgroundColor ==
    lookup_for_color(get_theme_node(theme), PROP_BACKGROUND_COLOR,
                     settings).value

\* the corner a timeout source will run its callback on
CornerOf(s) == debounces[s.debounce].corner

\* the debounced functions of the attached corners
ActiveDebounces == {d \in DOMAIN debounces : debounces[d].corner \in Attached}

\* C1 (as claimed): once remove() has destroyed a corner, no timeout created
\* by an earlier update() is pending for it, so its debounced callback can
\* never run on the destroyed element.
C1_NoTimeoutOutlivesRemove ==
    \A s \in sources : ~corners[CornerOf(s)].destroyed

\* C2: for a corner of an ACTIVE controller, a burst of N >= 1 calls of its
\* debounced function, each made while the timeout of the previous one is
\* pending, leaves exactly one timeout pending and no callback run; once that
\* timeout has fired the callback (one invalidateCache() and one
\* style-changed pass) has run exactly once for the burst.
C2_DebounceCoalescing ==
    \A d \in ActiveDebounces :
        debounces[d].calls >= 1 =>
            IF debounces[d].timeoutId # NULL
            THEN /\ debounces[d].runs = 0
                 /\ Cardinality({s \in sources : s.debounce = d}) = 1
            ELSE /\ debounces[d].runs = 1
                 /\ Cardinality({s \in sources : s.debounce = d}) = 0

C2_Witness ==
    \E d \in ActiveDebounces :
        /\ debounces[d].calls >= 2
        /\ debounces[d].runs = 1
        /\ debounces[d].timeoutId = NULL

\* C3: a style-changed event leaves, within its own step, every attached
\* corner with radius, border width and opacity re-derived from the current
\* settings and the background colour cleared, whether or not a timeout is
\* pending, and it neither waits for nor touches the pending timeouts.
C3_StyleChangeImmediate ==
    [][StyleChanged =>
          /\ \A c \in Attached :
                /\ corners'[c].cachedRadius = Some(FreshRadius)
                /\ corners'[c].cachedBorderWidth = Some(FreshBorderWidth)
                /\ corners'[c].cachedOpacity = Some(FreshOpacity)
                /\ corners'[c].cachedBackgroundColor = NULL
          /\ sources' = sources
          /\ debounces' = debounces]_vars

\* after the one change made so far (the radius), the timeout it started is
\* still pending and the corner already holds the new radius
C3_Witness ==
    \E s \in sources :
        /\ CornerOf(s) \in Attached
        /\ nChanges = 1
        /\ settings["panel-corner-radius"] = 12
        /\ corners[CornerOf(s)].cachedRadius = Some(FreshRadius)
        /\ corners[CornerOf(s)].cachedOpacity # NULL
        /\ corners[CornerOf(s)].cachedBackgroundColor = NULL

\* C4: between two invalidations each getter of a corner performs its
\* underlying lookup at most once and returns one value only, whatever
\* happens to the settings in between.
C4_CacheCoherence ==
    \A c \in DOMAIN corners : \A f \in Fields :
        /\ corners[c].lookups[f] <= 1
        /\ Cardinality(corners[c].returned[f]) <= 1

\* a getter answered from the cache although the settings had changed
C4_Witness ==
    \E c \in Attached :
        /\ "radius" \in corners[c].staleReads
        /\ corners[c].returned.radius = {Val(corners[c].cachedRadius)}
        /\ Val(corners[c].cachedRadius) # FreshRadius

\* the cached fields of a corner, by field name
Cache(self) ==
    [radius |-> self.cachedRadius, borderWidth |-> self.cachedBorderWidth,
     backgroundColor |-> self.cachedBackgroundColor,
     opacity |-> self.cachedOpacity]

Fresh ==
    [radius |-> Some(FreshRadius), borderWidth |-> Some(FreshBorderWidth),
     backgroundColor |-> Some(FreshBackgroundColor),
     opacity |-> Some(FreshOpacity)]

\* the cache of corner c before the step, empty if the step constructs it
CacheBefore(c) ==
    IF c \in DOMAIN corners THEN Cache(corners[c]) ELSE Cache(NewCorner("LEFT"))

\* C5: invalidateCache() leaves all four cached fields unset, and whenever a
\* step gives a cached field a value, that value is the one a lookup against
\* the settings of that moment gives, never one kept from before.
C5_InvalidateClearsAll ==
    [][/\ InvalidateCache =>
             \A c \in Attached : \A f \in Fields : Cache(corners'[c])[f] = NULL
       /\ \A c \in DOMAIN corners' : \A f \in Fields :
             (Cache(corners'[c])[f] # CacheBefore(c)[f]
              /\ Cache(corners'[c])[f] # NULL)
                => Cache(corners'[c])[f] = Fresh[f]]_vars

\* an attached corner, sized by a pass, with its whole cache cleared
C5_Witness ==
    \E c \in Attached :
        /\ corners[c].width > 0
        /\ \A f \in Fields : Cache(corners[c])[f] = NULL

\* C6: remove() on an ABSENT controller changes nothing: no element, child,
\* listener, subscription or timeout is created, destroyed or cancelled.
C6_RemoveIdempotent ==
    [][(ABSENT /\ Remove) => UNCHANGED vars]_vars

\* ABSENT after a remove(), with a timeout that a second remove() leaves alone
C6_Witness ==
    /\ ABSENT
    /\ Len(corners) > 0
    /\ sources # {}

\* ------------------------------------------------------------ C7 geometry
\* the box of a corner on side, of size w x h, on a panel W wide and H high
Box(side, w, h, W, H) ==
    IF side = "LEFT"
    THEN [x1 |-> 0, x2 |-> w, y1 |-> H, y2 |-> H + h]
    ELSE [x1 |-> W - w, x2 |-> W, y1 |-> H, y2 |-> H + h]

\* P holds of every corner that went through a style-changed pass in this
\* step: the attached corners on style-changed, the corner of the closure on
\* a timeout, the two new corners on update()
OnPass(P(_)) ==
    /\ StyleChanged => \A c \in Attached : P(c)
    /\ \A s \in sources :
          (TimeoutFires(s) /\ CornerOf(s) \in Attached) => P(CornerOf(s))
    /\ Update => \A c \in Attached' : P(c)

\* P holds of every corner the panel notified of a move or a resize in this
\* step
OnNotify(P(_)) ==
    (PanelMoved \/ \E size \in PanelSizes : PanelResized(size)) =>
        \A c \in Attached : P(c)

\* the pass on corner c set its size and translation from r and b, and
\* allocated it with the size it had on entry
PassGeometry(c) ==
    LET new == c \notin DOMAIN corners
        w == IF new THEN 0 ELSE corners[c].width
        h == IF new THEN 0 ELSE corners[c].height
        r == FreshRadius'
        b == FreshBorderWidth'
    IN  /\ corners'[c].width = r
        /\ corners'[c].height = b + r
        /\ corners'[c].translation_y = -b
        /\ corners'[c].allocation =
              Some(Box(corners'[c].side, w, h, panel'.width, panel'.height))

\* the notification allocated corner c with the r and b of its last pass
NotifyGeometry(c) ==
    LET r == corners[c].width
        b == -corners[c].translation_y
    IN  corners'[c].allocation =
            Some(Box(corners'[c].side, r, b + r, panel'.width, panel'.height))

\* the pass on corner c left the opacity target the override asks for
PassOpacity(c) ==
    corners'[c].opacity_target =
        Some(IF settings'[KEY_FORCE]
                /\ panel'.style_pseudo_class \in
                      {Some(OVERVIEW), Some(SOLID \o <<" ">> \o OVERVIEW)}
             THEN 0
             ELSE FreshOpacity' * 255)

\* C7 (as claimed): after a style-changed pass in which the radius resolves
\* to r, on a panel W wide and H high, the allocation of the corner is
\* x in [0, r], y in [H, H + r] for LEFT and x in [W - r, W], y in [H, H + r]
\* for RIGHT.
C7_AllocationAsClaimed ==
    [][StyleChanged =>
          \A c \in Attached :
              corners'[c].allocation =
                  Some(Box(corners'[c].side, FreshRadius', FreshRadius',
                           panel'.width, panel'.height))]_vars

\* C7 (amended): a style-changed pass that resolves the radius to r and the
\* border width to b sets the size of the corner to r x (b + r) and its
\* translation to -b, and allocates the corner with the size it had on
\* entering the pass (0 x 0 for a corner just constructed); an allocation
\* made once that size is in place, by the next pass or by a panel
\* notification, is x in [0, r], y in [H, H + b + r] for LEFT and
\* x in [W - r, W], y in [H, H + b + r] for RIGHT, W and H being the panel's
\* width and height at that moment.
C7_Geometry ==
    [][OnPass(PassGeometry) /\ OnNotify(NotifyGeometry)]_vars

\* r = 10, b = 2 on a 1000 x 40 panel, after the pass that follows update()
C7_Witness ==
    /\ ACTIVE
    /\ panel.width = 1000 /\ panel.height = 40
    /\ LET left == corners[Val(panel._leftCorner)]
           right == corners[Val(panel._rightCorner)]
       IN  /\ left.width = 10 /\ left.height = 12
           /\ left.allocation =
                 Some([x1 |-> 0, x2 |-> 10, y1 |-> 40, y2 |-> 52])
           /\ right.allocation =
                 Some([x1 |-> 990, x2 |-> 1000, y1 |-> 40, y2 |-> 52])

\* ----------------------------------------------------- C8 overview opacity
\* C8: a style-changed pass leaves the opacity target at 0 when
\* FORCE_EXTENSION_VALUES is enabled and the panel's style pseudo-class
\* contains "overview", whatever opacity the lookup returned, and at the
\* looked-up opacity times 255 in every other case (forcing disabled,
\* pseudo-class null, empty or without "overview").
C8_OverviewOpacity == [][OnPass(PassOpacity)]_vars

\* a pass under forcing and "overview" with a looked-up opacity that is not 0
C8_Witness ==
    /\ settings[KEY_FORCE]
    /\ panel.style_pseudo_class = Some(SOLID \o <<" ">> \o OVERVIEW)
    /\ \E c \in Attached :
          /\ corners[c].cachedOpacity = Some(100)
          /\ corners[c].opacity_target = Some(0)
          /\ corners[c].allocation # Some(Box(corners[c].side, 0, 0,
                                              panel.width, panel.height))

\* --------------------------------------------------- C9 colour self-repair
ColorKey == slice(PROP_BACKGROUND_COLOR, 1)[1]

ColorCalls == {i \in 1..Len(call) : call[i].fn = "lookup_for_color"}

\* C9: a colour lookup that reads a colour setting whose string does not
\* parse writes #000000ff to that setting, once, and returns opaque black;
\* every later colour lookup returns opaque black and writes nothing, so one
\* corrupt value causes exactly one repair write.
C9_ColorSelfRepair ==
    \A i \in ColorCalls :
        LET parsed == color_from_string(call[i].settings[ColorKey])
            after == IF i < Len(call) THEN call[i + 1].settings ELSE settings
        IN  IF parsed[1]
            THEN call[i].set = <<>> /\ after = call[i].settings
            ELSE /\ call[i].set = <<ColorKey>>
                 /\ call[i].value = OpaqueBlack
                 /\ after = [call[i].settings EXCEPT ![ColorKey] = BLACK_STR]
                 /\ \A j \in ColorCalls :
                       j > i => /\ call[j].set = <<>>
                                /\ call[j].value = OpaqueBlack

\* a corrupt colour read twice: the first read repaired it, the second
\* wrote nothing
C9_Witness ==
    /\ Len(call) = 2
    /\ ColorCalls = {1, 2}
    /\ call[1].settings[ColorKey] = BAD_STR
    /\ call[1].set = <<ColorKey>>
    /\ call[2].set = <<>>
    /\ call[2].value = OpaqueBlack
    /\ settings[ColorKey] = BLACK_STR

\* --------------------------------------------------- C10 two-tier lookup
\* what the user setting gives for call k
FromSetting(k) ==
    LET v == k.settings[slice(k.prop, 1)[1]]
    IN  CASE k.fn = "lookup_for_length" -> v * scale_factor
          [] k.fn = "lookup_for_double" -> v
          [] k.fn = "lookup_for_color" ->
                IF color_from_string(v)[1] THEN color_from_string(v)[2]
                ELSE OpaqueBlack

\* C10 (as claimed): a lookup returns the theme's value when forcing is
\* disabled, a theme node is available and the theme defines the property;
\* in every other case it returns the user setting, times the scale factor
\* for lengths.
C10_TwoTierLookup ==
    \A i \in 1..Len(call) :
        LET k == call[i]
        IN  IF /\ ~k.settings[KEY_FORCE]
               /\ k.node # NULL
               /\ Val(k.node)[k.prop] # NULL
            THEN k.value = Val(Val(k.node)[k.prop])
            ELSE k.value = FromSetting(k)

\* ------------------------------------------------- C11 one active debounce
\* C11 (as claimed): at most one timeout created by the controller is pending
\* at any moment, and every debounced function subscribed to a settings key
\* is the one the controller holds in #debouncedStyleUpdate.
C11_SingleActiveDebounce ==
    /\ Cardinality(sources) <= 1
    /\ \A i \in 1..Len(connections) :
          Some(connections[i].handler) = debouncedStyleUpdate

\* ------------------------------------------------- C12 ABSENT or ACTIVE
\* the settings subscriptions of key made for corner c
Subscriptions(key, c) ==
    {i \in 1..Len(connections) :
        connections[i].signal = key /\ debounces[connections[i].handler].corner = c}

\* the panel listeners of signal owned by corner c
Listeners(signal, c) ==
    {h \in panel.handlers : h.signal = signal /\ h.corner = c}

\* C12: the controller is either ABSENT, with no corner attached to the
\* panel, no settings subscription and no panel listener of a corner, or
\* ACTIVE, with exactly one LEFT and one RIGHT corner attached, each alive,
\* holding exactly one position and one size listener, and subscribed exactly
\* once to every settings key; nothing else is attached, listening or
\* subscribed, however many update() and remove() calls were made.
C12_AbsentOrActive ==
    \/ /\ ABSENT
       /\ Attached = {}
       /\ connections = <<>>
       /\ panel.handlers = {}
    \/ /\ ACTIVE
       /\ LET l == Val(panel._leftCorner)
              r == Val(panel._rightCorner)
          IN  /\ l # r
              /\ Attached = {l, r}
              /\ corners[l].side = "LEFT" /\ corners[r].side = "RIGHT"
              /\ \A c \in {l, r} :
                    /\ ~corners[c].destroyed
                    /\ Cardinality(Listeners("notify::position", c)) = 1
                    /\ Cardinality(Listeners("notify::size", c)) = 1
                    /\ \A key \in Keys : Cardinality(Subscriptions(key, c)) = 1
              /\ Cardinality(panel.handlers) = 4
              /\ Len(connections) = 2 * Cardinality(Keys)

\* ACTIVE again after a second update(), the first two corners destroyed
C12_Witness ==
    /\ ACTIVE
    /\ Len(corners) = 4
    /\ corners[1].destroyed /\ corners[2].destroyed
    /\ Attached = {3, 4}

\* ------------------------------------------------- C13 teardown ordering
\* C13 (as claimed): when a corner is destroyed no debounced callback is
\* pending for it any more, no settings subscription is left, its two panel
\* listeners are disconnected and it is no longer a child of the panel; so
\* no listener of the panel belongs to a destroyed corner.
C13_TeardownOrdering ==
    /\ \A c \in DOMAIN corners :
          corners[c].destroyed =>
              corners[c].atDestroy =
                  Some([pending |-> FALSE, subscribed |-> FALSE,
                        listeners |-> FALSE, child |-> FALSE])
    /\ \A h \in panel.handlers : ~corners[h.corner].destroyed

\* ------------------------------------------- C14 settings change debounced
\* the debounced functions subscribed to key
SubscribedTo(key) ==
    {connections[i].handler : i \in {j \in 1..Len(connections) :
                                        connections[j].signal = key}}

\* C14: the step that delivers a settings change leaves every corner, the
\* panel and the subscriptions as they were; all it does is leave each
\* debounced function subscribed to the key with exactly one pending timeout,
\* newly started for that key, and every other timeout in place.
C14_SettingsChangeDebounced ==
    [][\A key \in Keys : \A value \in EditValues(key) :
          SettingsChanged(key, value) =>
              /\ corners' = corners
              /\ panel' = panel
              /\ connections' = connections
              /\ debouncedStyleUpdate' = debouncedStyleUpdate
              /\ \A d \in DOMAIN debounces :
                    IF d \in SubscribedTo(key)
                    THEN /\ debounces'[d].timeoutId # NULL
                         /\ debounces'[d].runs = debounces[d].runs
                              \/ debounces[d].timeoutId = NULL
                         /\ {s \in sources' : s.debounce = d} =
                               {[id |-> Val(debounces'[d].timeoutId),
                                 debounce |-> d, args |-> key]}
                    ELSE /\ debounces'[d] = debounces[d]
                         /\ {s \in sources' : s.debounce = d} =
                               {s \in sources : s.debounce = d}]_vars

\* a settings change was delivered and its timeout is pending, while the
\* attached corner still caches the radius of before the change
C14_Witness ==
    \E s \in sources :
        /\ s.args = "panel-corner-radius"
        /\ CornerOf(s) \in Attached
        /\ corners[CornerOf(s)].cachedRadius # NULL
        /\ corners[CornerOf(s)].cachedRadius # Some(FreshRadius)
        /\ corners[CornerOf(s)].staleReads = {}

\* ------------------------------------------------- C15 the cache as a unit
\* the cached fields of corner c that hold a value
Populated(c) == {f \in Fields : Cache(corners[c])[f] # NULL}

\* C15 (as claimed): the cache of a corner is either fresh, all four fields
\* set, or stale, all four fields unset.
C15_CacheOneUnit ==
    \A c \in DOMAIN corners : Populated(c) \in {{}, Fields}

\* C15 (amended): the fields are filled one by one, each by the handler that
\* reads it.  The cache of a corner holds nothing (after invalidateCache()),
\* or radius, border width and opacity (after a style-changed pass), or
\* radius, border width and background colour (after a repaint that followed
\* an invalidateCache()), or all four (after a repaint that followed a
\* pass); radius and border width are always set or unset together.
C15_CacheShapes ==
    \A c \in DOMAIN corners :
        Populated(c) \in {{},
                          {"radius", "borderWidth", "opacity"},
                          {"radius", "borderWidth", "backgroundColor"},
                          Fields}

\* every shape occurs: a corner repainted after an invalidateCache() next to
\* one that a timeout's pass has refilled and a repaint has completed
C15_Witness ==
    \E c, d \in Attached :
        /\ Populated(c) = {"radius", "borderWidth", "backgroundColor"}
        /\ Populated(d) = Fields

\* ------------------------------------------------- C16 cached values
\* a timeout is pending for the debounced function of corner c
PendingFor(c) == \E s \in sources : CornerOf(s) = c

\* C16 (as claimed): each cached field of a corner is unset or equal to what
\* the lookup derives from the current theme and settings, and no getter has
\* answered with a value the current settings no longer give.
C16_CacheValueCurrent ==
    \A c \in Attached :
        /\ \A f \in Fields :
              Cache(corners[c])[f] = NULL \/ Cache(corners[c])[f] = Fresh[f]
        /\ corners[c].staleReads = {}

\* C16 (amended): for a corner attached to the panel, each cached field is
\* unset or equal to what the lookup derives from the current theme and
\* settings, and every value its getters returned is current, except while a
\* timeout of the corner's debounced function is pending: from the delivery
\* of a settings change until that timeout fires the cache may hold, and a
\* repaint may paint with, the values of before the change.
C16_CacheValueUnlessPending ==
    \A c \in Attached :
        PendingFor(c) \/
            /\ \A f \in Fields :
                  Cache(corners[c])[f] = NULL \/ Cache(corners[c])[f] = Fresh[f]
            /\ corners[c].staleReads = {}

\* a repaint in the debounce window painted with the radius of before the
\* change
C16_Witness ==
    \E c \in Attached :
        /\ PendingFor(c)
        /\ "radius" \in corners[c].staleReads
        /\ corners[c].cachedBackgroundColor # NULL
        /\ corners[c].cachedRadius # Some(FreshRadius)

\* ------------------------------------------- C17 allocation after the pass
\* the allocation of corner c after the step is the box of the size that
\* belongs to the radius and border width it then caches
AllocationCurrent(c) ==
    /\ corners'[c].cachedRadius # NULL
    /\ corners'[c].cachedBorderWidth # NULL
    /\ corners'[c].allocation =
          Some(Box(corners'[c].side,
                   Val(corners'[c].cachedRadius),
                   Val(corners'[c].cachedBorderWidth)
                       + Val(corners'[c].cachedRadius),
                   panel'.width, panel'.height))

\* C17 (as claimed): whenever #update_allocation() runs, in a style-changed
\* pass (the first one, made by update(), included) or on a panel
\* notification, the width and height it reads are radius and
\* borderWidth + radius of the values currently cached, never the size of
\* before the pass.
C17_AllocationAfterPass ==
    [][OnPass(AllocationCurrent) /\ OnNotify(AllocationCurrent)]_vars

\* ------------------------------------------------- C18 context release
\* C18 (as claimed): whatever happens in a repaint, a lookup or a drawing
\* call failing included, every drawing context the corner acquired has been
\* released when the handler is left.
C18_ContextReleased ==
    \A c \in DOMAIN corners : corners[c].contexts = 0

\* ------------------------------------------------- C19 debounce semantics
\* the timeouts pending for debounced function d, before and after the step
TimersOf(d) == {s \in sources : s.debounce = d}

TimersAfter(d) == {s \in sources' : s.debounce = d}

\* the step touched nothing of the debounced functions other than d
OthersKept(d) ==
    \A e \in DOMAIN debounces \ {d} :
        debounces'[e] = debounces[e] /\ TimersAfter(e) = TimersOf(e)

\* C19: a debounced function never has more than one timeout pending.  A
\* call leaves exactly one, started for the arguments of that call, with any
\* earlier one removed and the callback not run; the timeout that fires is
\* therefore the one of the last call, and its callback runs once for the
\* burst and leaves nothing pending.  cancel() removes the pending timeout
\* without running the callback, so no callback runs for the calls made
\* before it, and changes nothing when none is pending.  After a fire or a
\* cancel, a call starts a new burst of one call with one timeout.
C19_DebounceSemantics ==
    [][/\ \A d \in DOMAIN debounces' : Cardinality(TimersAfter(d)) <= 1
       /\ \A d \in DOMAIN debounces : \A args \in Keys :
             DebouncedCall(d, args) =>
                 /\ TimersAfter(d) =
                       {[id |-> Val(debounces'[d].timeoutId), debounce |-> d,
                         args |-> args]}
                 /\ debounces[d].timeoutId = NULL =>
                       debounces'[d].calls = 1 /\ debounces'[d].runs = 0
                 /\ debounces[d].timeoutId # NULL =>
                       /\ debounces'[d].calls = debounces[d].calls + 1
                       /\ debounces'[d].runs = debounces[d].runs
                 /\ corners' = corners
                 /\ OthersKept(d)
       /\ \A d \in DOMAIN debounces :
             Cancel(d) =>
                 /\ TimersAfter(d) = {}
                 /\ debounces'[d].timeoutId = NULL
                 /\ debounces'[d].runs = debounces[d].runs
                 /\ corners' = corners
                 /\ OthersKept(d)
                 /\ debounces[d].timeoutId = NULL => UNCHANGED vars
       /\ \A s \in sources :
             TimeoutFires(s) =>
                 /\ TimersOf(s.debounce) = {s}
                 /\ debounces[s.debounce].timeoutId = Some(s.id)
                 /\ TimersAfter(s.debounce) = {}
                 /\ debounces'[s.debounce].timeoutId = NULL
                 /\ debounces'[s.debounce].runs = 1
                 /\ OthersKept(s.debounce)]_vars

\* one function fired once after a burst of several calls, the other was
\* called and cancelled and its callback never ran
C19_Witness ==
    \E d, e \in DOMAIN debounces :
        /\ debounces[d].calls = MaxBurst
        /\ debounces[d].runs = 1
        /\ debounces[d].timeoutId = NULL
        /\ debounces[e].calls >= 1
        /\ debounces[e].runs = 0
        /\ debounces[e].timeoutId = NULL
        /\ sources = {}

\* ------------------------------------------------- C20 eventual consistency
\* corner c caches the radius, border width and opacity the current settings
\* give, and has the size that belongs to them
Consistent(c) ==
    /\ corners[c].cachedRadius = Some(FreshRadius)
    /\ corners[c].cachedBorderWidth = Some(FreshBorderWidth)
    /\ corners[c].cachedOpacity = Some(FreshOpacity)
    /\ corners[c].width = FreshRadius
    /\ corners[c].height = FreshBorderWidth + FreshRadius

AllConsistent == ACTIVE /\ \A c \in Attached : Consistent(c)

\* C20: while the controller stays ACTIVE and every pending timeout is
\* eventually dispatched, whenever a corner is out of step with the settings
\* both corners eventually cache the radius, border width and opacity of the
\* current settings and have size (radius, borderWidth + radius); and once
\* they do, they stay so through every step that is not a settings change.
C20_EventualConsistency ==
    /\ (~AllConsistent) ~> AllConsistent
    /\ [][(AllConsistent
           /\ ~\E key \in Keys : \E value \in EditValues(key) :
                  SettingsChanged(key, value))
          => AllConsistent']_vars

\* the radius was edited, both timeouts have fired, and the corners have
\* taken the new radius
C20_Witness ==
    /\ AllConsistent
    /\ settings["panel-corner-radius"] = 12
    /\ sources = {}
    /\ \A d \in ActiveDebounces : debounces[d].runs = 1
    /\ \A c \in Attached : corners[c].width = 12

====
